---- MODULE Spec2Model ----
(***************************************************************************)
(* library_ETL: the inventory back end (FastAPI routers over SQLAlchemy)   *)
(* and the CSV bulk load, modelled over one shared relational store.       *)
(*                                                                         *)
(* The store holds committed rows only.  What a request has read or added  *)
(* to its SQLAlchemy session lives in the request's own record until the   *)
(* handler commits.                                                        *)
(***************************************************************************)
EXTENDS Integers, Sequences, FiniteSets, TLC

VARIABLES books, transactions, teachers, next_teacher_id, req, effects, raced, streak,
          locations, categories, csv, job, session

vars == <<books, transactions, teachers, next_teacher_id, req, effects, raced, streak,
          locations, categories, csv, job, session>>

store == <<books, transactions, teachers, next_teacher_id>>

-----------------------------------------------------------------------------
(* Bounds of the model *)

NumBooks == 2

NumReqs == 2

MaxTeachers == 1

MaxTransactions == 2

\* rows of one input file
MaxRows == 2

\* books the store holds at most after a load of a sheet
MaxShelf == 4

\* the number of probes of the id allocator that counts as bounded
ProbeLimit == 2

-----------------------------------------------------------------------------
(* Values *)

\* book_id values (String(50) keys in the source, numbered here)
BookIds == 1..NumBooks

\* teacher_id values a request can carry
TeacherIds == 1..MaxTeachers

\* concurrent inbound requests to POST /transactions/
Reqs == 1..NumReqs

\* Python None / SQL NULL
NULL == "NULL"

\* a field left out of a BookUpdate payload (exclude_unset drops it)
UNSET == "UNSET"

\* a local variable that was never assigned (reading it raises UnboundLocalError)
Unbound == "Unbound"

\* CheckConstraint check_book_status
BookStatus == {"Available", "On Loan", "Lost", "Archived"}

\* TransactionBase.action: Literal["borrow", "return"]
Actions == {"borrow", "return"}

\* The string literals create_transaction compares against.  The source
\* spells them in Chinese; they are transliterated here (pinyin) because
\* the module is ASCII.  None of them equals an English literal above.
\* U+501F U+95B1 ("borrow")
ZH_BORROW == "zh:jieyue"

\* U+6B78 U+9084 ("return")
ZH_RETURN == "zh:guihuan"

\* U+53EF U+501F U+95B1 ("available")
ZH_AVAILABLE == "zh:kejieyue"

\* U+501F U+95B1 U+4E2D ("on loan")
ZH_ON_LOAN == "zh:jieyuezhong"

\* books_df['status'] = 'Available' in transform_data
DF_STATUS == "Available"

-----------------------------------------------------------------------------
(* Store constraints *)

\* Book.status: nullable=False and CHECK status IN (...)
check_book_status_nullable(s) == s = NULL \/ s \in BookStatus

check_book_status(s) == s # NULL /\ s \in BookStatus

\* Transaction.action: CHECK action IN ('borrow', 'return')
check_transaction_action(a) == a \in {"borrow", "return"}

\* rows of the transactions table that reference book b
RowsOfBook(b) == {i \in DOMAIN transactions : transactions[i].book_id = b}

\* rows of the transactions table that reference teacher t
RowsOfTeacher(t) == {i \in DOMAIN transactions : transactions[i].teacher_id = t}

-----------------------------------------------------------------------------
(* create_transaction *)

IdleReq == [pc |-> "idle", book_id |-> 0, teacher_id |-> 0, action |-> "",
            book_status |-> "", new_status |-> Unbound, result |-> "none"]

\* the response has gone out and the session is closed: the HTTP status is
\* what is left of the request
Done(result) == [IdleReq EXCEPT !.pc = "done", !.result = result]

\* lines 99-104: a request arrives whose body passed TransactionCreate
Receive(r, b, t, a) ==
  /\ req[r].pc \in {"idle", "done"}
  /\ req' = [req EXCEPT ![r] = [IdleReq EXCEPT !.pc = "received", !.book_id = b,
                                               !.teacher_id = t, !.action = a]]
  /\ effects' = [effects EXCEPT ![r] = {}]
  /\ raced' = [q \in Reqs |-> IF q = r THEN {} ELSE raced[q] \ {r}]
  /\ UNCHANGED <<store, streak>>

\* lines 128-143: the if / elif over transaction_data.action; when neither
\* branch is taken new_status is never assigned
validate_action(action, status) ==
  IF action = ZH_BORROW
  THEN IF status # ZH_AVAILABLE
       THEN [raise |-> "400", new_status |-> Unbound]
       ELSE [raise |-> "none", new_status |-> ZH_ON_LOAN]
  ELSE IF action = ZH_RETURN
       THEN IF status # ZH_ON_LOAN
            THEN [raise |-> "400", new_status |-> Unbound]
            ELSE [raise |-> "none", new_status |-> ZH_AVAILABLE]
       ELSE [raise |-> "none", new_status |-> Unbound]

\* monitor of the borrow, return, borrow, return scenario on one book: the
\* number of consecutive successful submissions in that order, the first
\* one made on an Available book
StreakAfter(k, action, status, result) ==
  LET kk == IF k = 4 THEN 0 ELSE k
      expected == IF kk % 2 = 0 THEN "borrow" ELSE "return"
  IN IF result = "201" /\ action = expected /\ (kk = 0 => status = "Available")
     THEN kk + 1
     ELSE 0

\* monitor of concurrent borrows: when r, a borrow that read its book as
\* Available, returns, the other borrows of the same book that also read it
\* as Available and are still between their read and their commit (the
\* teachers of both exist)
Rivals(r) ==
  IF /\ req[r].action = "borrow" /\ req[r].book_status = "Available"
     /\ req[r].teacher_id \in teachers
  THEN {q \in Reqs \ {r} : /\ req[q].pc = "validated"
                           /\ req[q].book_id = req[r].book_id
                           /\ req[q].action = "borrow"
                           /\ req[q].book_status = "Available"
                           /\ req[q].teacher_id \in teachers}
  ELSE {}

\* lines 119-143: look the book up, answer 404 when there is none, and
\* validate the action against the status that was read
ReadBook(r) ==
  /\ req[r].pc = "received"
  /\ LET b == req[r].book_id IN
     IF b \notin DOMAIN books
     THEN /\ req' = [req EXCEPT ![r] = Done("404")]
          /\ UNCHANGED streak
     ELSE LET v == validate_action(req[r].action, books[b].status) IN
          IF v.raise # "none"
          THEN /\ req' = [req EXCEPT ![r] = Done(v.raise)]
               /\ streak' = [streak EXCEPT ![b] = 0]
          ELSE /\ req' = [req EXCEPT ![r].pc = "validated",
                                     ![r].book_status = books[b].status,
                                     ![r].new_status = v.new_status]
               /\ UNCHANGED streak
  /\ UNCHANGED <<store, effects, raced>>

\* the row db.add() queues: Transaction(**transaction_data.model_dump())
NewTransaction(r) ==
  [transaction_id |-> Len(transactions) + 1, book_id |-> req[r].book_id,
   teacher_id |-> req[r].teacher_id, action |-> req[r].action]

\* what the INSERT of the queued row needs: its foreign keys and its CHECK
InsertOK(r) ==
  /\ req[r].book_id \in DOMAIN books
  /\ req[r].teacher_id \in teachers
  /\ check_transaction_action(req[r].action)

\* what the flush at db.commit() needs: the INSERT, and the UPDATE's CHECK
CommitOK(r) ==
  /\ InsertOK(r)
  /\ check_book_status(req[r].new_status)

\* a variant of lines 145-155 that commits the queued row right after
\* db.add(), before book.status is assigned
WriteCommitFirst(r) ==
  /\ req[r].pc = "validated"
  /\ Len(transactions) < MaxTransactions
  /\ LET b == req[r].book_id IN
     /\ transactions' = IF InsertOK(r) THEN Append(transactions, NewTransaction(r))
                        ELSE transactions
     /\ IF req[r].new_status # Unbound /\ CommitOK(r)
        THEN /\ books' = [books EXCEPT ![b].status = req[r].new_status]
             /\ effects' = [effects EXCEPT ![r] = {"row", "status"}]
             /\ req' = [req EXCEPT ![r] = Done("201")]
        ELSE /\ books' = books
             /\ effects' = [effects EXCEPT ![r] = IF InsertOK(r) THEN {"row"} ELSE {}]
             /\ req' = [req EXCEPT ![r] = Done("500")]
     /\ streak' = [streak EXCEPT ![b] =
                     StreakAfter(streak[b], req[r].action, req[r].book_status, req'[r].result)]
  /\ raced' = [raced EXCEPT ![r] = Rivals(r)]
  /\ UNCHANGED <<teachers, next_teacher_id>>

\* lines 145-155: db.add(new_transaction); book.status = new_status;
\* db.commit().  Reading an unassigned new_status raises before the commit,
\* and a failed flush rolls the whole unit back: either way the session is
\* discarded with nothing written.
Write(r) ==
  /\ req[r].pc = "validated"
  /\ Len(transactions) < MaxTransactions
  /\ LET b == req[r].book_id IN
     /\ IF req[r].new_status # Unbound /\ CommitOK(r)
        THEN /\ transactions' = Append(transactions, NewTransaction(r))
             /\ books' = [books EXCEPT ![b].status = req[r].new_status]
             /\ effects' = [effects EXCEPT ![r] = {"row", "status"}]
             /\ req' = [req EXCEPT ![r] = Done("201")]
        ELSE /\ UNCHANGED <<books, transactions, effects>>
             /\ req' = [req EXCEPT ![r] = Done("500")]
     /\ streak' = [streak EXCEPT ![b] =
                     StreakAfter(streak[b], req[r].action, req[r].book_status, req'[r].result)]
  /\ raced' = [raced EXCEPT ![r] = Rivals(r)]
  /\ UNCHANGED <<teachers, next_teacher_id>>

-----------------------------------------------------------------------------
(* books router *)

\* create_book: 400 when the id is taken; otherwise Book(**book_data.model_dump())
\* is given book_category and book_category_label, which the Book model does
\* not have, and the constructor raises TypeError before db.add(): no path
\* of the handler writes
create_book(b) ==
  /\ IF b \in DOMAIN books
     THEN books' = books
     ELSE books' = books
  /\ UNCHANGED <<transactions, teachers, next_teacher_id, req, effects, raced, streak>>

\* update_book: 404 when there is no such book; setattr of every field the
\* payload sets, then commit; a status of None breaks nullable=False and the
\* commit is rolled back
update_book(b, st) ==
  /\ IF b \in DOMAIN books /\ st # UNSET /\ check_book_status(st)
     THEN /\ books' = [books EXCEPT ![b].status = st]
          /\ streak' = [streak EXCEPT ![b] = 0]
     ELSE UNCHANGED <<books, streak>>
  /\ UNCHANGED <<transactions, teachers, next_teacher_id, req, effects, raced>>

\* delete_book: 404 when there is no such book; db.delete(book), where the
\* ORM first nulls the book_id of the book's Transaction rows, which
\* nullable=False refuses
delete_book(b) ==
  /\ IF b \in DOMAIN books /\ RowsOfBook(b) = {}
     THEN /\ books' = [x \in DOMAIN books \ {b} |-> books[x]]
          /\ streak' = [x \in DOMAIN streak |-> IF x = b THEN 0 ELSE streak[x]]
     ELSE UNCHANGED <<books, streak>>
  /\ UNCHANGED <<transactions, teachers, next_teacher_id, req, effects, raced>>

-----------------------------------------------------------------------------
(* teachers router *)

\* create_teacher: insert with the next serial teacher_id
create_teacher ==
  /\ next_teacher_id <= MaxTeachers
  /\ teachers' = teachers \cup {next_teacher_id}
  /\ next_teacher_id' = next_teacher_id + 1
  /\ UNCHANGED <<books, transactions, req, effects, raced, streak>>

\* delete_teacher: 404 when there is no such teacher; otherwise as
\* delete_book, for the teacher's Transaction rows
delete_teacher(t) ==
  /\ IF t \in teachers /\ RowsOfTeacher(t) = {}
     THEN teachers' = teachers \ {t}
     ELSE teachers' = teachers
  /\ UNCHANGED <<books, transactions, next_teacher_id, req, effects, raced, streak>>

-----------------------------------------------------------------------------
(* csv_loader: frames *)

\* the tables and the bookkeeping of the bulk loads
etl == <<locations, categories, csv, job, session>>

\* the variables of the API back end, and the open sessions of loader.py,
\* which no load that is one call touches
backend == <<transactions, teachers, next_teacher_id, req, effects, raced, session>>

\* location names that occur in input files
LocNames == {"Shelf A", "Shelf B"}

\* one row of an input: the id the source supplies, the book name and the
\* location name; a cell may be empty (NaN).  The category columns are
\* carried along by every stage and decide nothing, so a row does not
\* spell them out: a frame that has them has them filled.
Rows == [book_id : BookIds, name : {"Book", NULL}, location : LocNames \cup {NULL}]

RowSeqs == UNION {[1..n -> Rows] : n \in 0..MaxRows}

\* a pandas DataFrame: the names of its columns and its rows
DataFrame(cols, rows) == [kind |-> "DataFrame", cols |-> cols, rows |-> rows]

\* the columns of the file and of the frames the stages hand on
RAW_COLS == {"category", "category_label", "book_name", "location"}

BOOKS_DF_COLS == {"book_category", "book_category_label", "name", "location",
                  "book_id", "status"}

\* the frames a caller of validate_data / load_locations / load_books can
\* hold: with the columns validate_data asks for, with the columns of
\* transform_data's books_df (BOOKS_DF_COLS), and without the category and
\* location columns
FULL_COLS == {"book_id", "name", "book_category", "book_category_label",
              "location_name", "status"}

BARE_COLS == {"book_id", "name", "status"}

\* there is no file at the path
NoFile == [kind |-> "NoFile"]

Inputs == {NoFile} \cup [kind : {"file"}, cols : {FULL_COLS, BOOKS_DF_COLS, BARE_COLS}, rows : RowSeqs]

\* the frame a direct caller passes: the rows of the input under its columns
Frame == DataFrame(csv.cols, csv.rows)

Range(f) == {f[i] : i \in DOMAIN f}

\* the orders in which a Python set can be iterated
Orders(S) == {o \in [1..Cardinality(S) -> S] : Range(o) = S}

\* a set of ids in ascending order
RECURSIVE Sorted(_)
Sorted(S) ==
  IF S = {} THEN <<>>
  ELSE LET m == CHOOSE x \in S : \A y \in S : x <= y
       IN <<m>> \o Sorted(S \ {m})

\* the frame of transform_data's shape for the books ids, without a
\* location column
IdFrame(ids) ==
  LET o == Sorted(ids)
  IN DataFrame(BARE_COLS, [i \in DOMAIN o |-> [book_id |-> o[i], name |-> "Book", location |-> NULL]])

-----------------------------------------------------------------------------
(* csv_loader/extract.py, transform.py, validation.py *)

\* extract_data: FileNotFoundError, or the file as a frame
extract_data(file) ==
  IF file = NoFile
  THEN [raise |-> TRUE, value |-> NoFile]
  ELSE [raise |-> FALSE, value |-> DataFrame(RAW_COLS, file.rows)]

\* drop_duplicates: the first occurrence of each value, in order
RECURSIVE drop_duplicates(_)
drop_duplicates(q) ==
  IF q = <<>> THEN <<>>
  ELSE LET init == drop_duplicates(SubSeq(q, 1, Len(q) - 1))
           last == q[Len(q)]
       IN IF last \in Range(init) THEN init ELSE Append(init, last)

\* a variant of transform_data that keeps the id the source supplies
transform_data_source_ids(raw_df, ids) ==
  LET books_df == DataFrame(BOOKS_DF_COLS, raw_df.rows)
      names == drop_duplicates([i \in DOMAIN raw_df.rows |-> raw_df.rows[i].location])
      locations_df == DataFrame({"location_name"},
                                [i \in DOMAIN names |->
                                   [book_id |-> NULL, name |-> NULL, location |-> names[i]]])
  IN [kind |-> "tuple", items |-> <<books_df, locations_df>>]

\* generate_book_id: uuid4 values, one per row, whatever the source supplied
Uuids == {"uuid-" \o ToString(k) : k \in 1..MaxRows}

\* transform_data: books_df takes the four raw columns (a book_id column of
\* the file is not among them), gets a generated book_id per row and
\* status 'Available'; locations_df is the distinct location names.  The
\* two frames are returned as a tuple.
transform_data(raw_df, ids) ==
  LET books_df == DataFrame(BOOKS_DF_COLS,
                            [i \in DOMAIN raw_df.rows |-> [raw_df.rows[i] EXCEPT !.book_id = ids[i]]])
      names == drop_duplicates([i \in DOMAIN raw_df.rows |-> raw_df.rows[i].location])
      locations_df == DataFrame({"location_name"},
                                [i \in DOMAIN names |->
                                   [book_id |-> NULL, name |-> NULL, location |-> names[i]]])
  IN [kind |-> "tuple", items |-> <<books_df, locations_df>>]

\* the values of a column of a frame
Column(df, col) ==
  IF col = "name" THEN {df.rows[i].name : i \in DOMAIN df.rows}
  ELSE IF col \in {"location_name", "location"} THEN {df.rows[i].location : i \in DOMAIN df.rows}
  ELSE IF col = "book_id" THEN {df.rows[i].book_id : i \in DOMAIN df.rows}
  ELSE {"filled"}

critical_cols == <<"book_category", "book_category_label", "name", "location_name">>

\* expect_column_values_to_be_unique("book_id")
book_id_unique(df) ==
  /\ "book_id" \in df.cols
  /\ \A i, j \in DOMAIN df.rows : df.rows[i].book_id = df.rows[j].book_id => i = j

\* a variant of validate_data that only warns about a null value
validate_data_warn(x) ==
  IF x.kind # "DataFrame" THEN "raise"
  ELSE IF \E i \in DOMAIN critical_cols : critical_cols[i] \notin x.cols
       THEN "raise"
       ELSE IF ~book_id_unique(x) THEN "raise" ELSE "True"

\* validate_data: gx.from_pandas refuses what is not a DataFrame; every
\* critical column must exist and hold no null (ValueError); the remaining
\* expectations are judged by validate() (ValueError); otherwise True
validate_data(x) ==
  IF x.kind # "DataFrame" THEN "raise"
  ELSE IF \E i \in DOMAIN critical_cols :
            \/ critical_cols[i] \notin x.cols
            \/ NULL \in Column(x, critical_cols[i])
       THEN "raise"
       ELSE IF ~book_id_unique(x) THEN "raise" ELSE "True"

-----------------------------------------------------------------------------
(* csv_loader/load.py *)

LocationNames(locs) == {locs[i].location_name : i \in DOMAIN locs}

\* a variant of load_locations that inserts every name of the input
LoadLocationsAll(locs, x, up) ==
  IF x.kind # "DataFrame" THEN {[raise |-> TRUE, locations |-> locs]}
  ELSE IF "location_name" \notin x.cols THEN {[raise |-> FALSE, locations |-> locs]}
  ELSE LET unique_locations == Column(x, "location_name") \ {NULL}
       IN IF unique_locations = {} THEN {[raise |-> FALSE, locations |-> locs]}
          ELSE IF ~up THEN {[raise |-> TRUE, locations |-> locs]}
          ELSE {[raise |-> FALSE,
                 locations |-> locs \o [i \in DOMAIN o |->
                                          [location_name |-> o[i], category_label |-> NULL]]]
                : o \in Orders(unique_locations)}

\* load_locations, lines 22-60, as a function of the locations table: the
\* outcomes it can have (the new names are inserted in the iteration order
\* of a set).  up: the database answers; when it does not, the call raises
\* and engine.begin() rolls back.
LoadLocations(locs, x, up) ==
  IF x.kind # "DataFrame" THEN {[raise |-> TRUE, locations |-> locs]}
  ELSE IF "location_name" \notin x.cols THEN {[raise |-> FALSE, locations |-> locs]}
  ELSE LET unique_locations == Column(x, "location_name") \ {NULL}
       IN IF unique_locations = {} THEN {[raise |-> FALSE, locations |-> locs]}
          ELSE IF ~up THEN {[raise |-> TRUE, locations |-> locs]}
          ELSE LET existing_set == LocationNames(locs)
                   new_locations == unique_locations \ existing_set
               IN {[raise |-> FALSE,
                    locations |-> locs \o [i \in DOMAIN o |->
                                             [location_name |-> o[i], category_label |-> NULL]]]
                   : o \in Orders(new_locations)}

\* a nullable integer column holds no id or one id
NoId == {}

\* dict(zip(location_name, location_id)): the last row of a name wins; a
\* name that is not a key maps to NaN, held here as no id
location_map(locs, n) ==
  IF n \in LocationNames(locs)
  THEN {CHOOSE i \in DOMAIN locs :
          /\ locs[i].location_name = n
          /\ \A j \in DOMAIN locs : locs[j].location_name = n => j <= i}
  ELSE NoId

\* the records of books_to_insert; nan: storage_location_id is the NaN of
\* an unmapped name and not None
books_to_insert(locs, x) ==
  [i \in DOMAIN x.rows |->
     [book_id |-> x.rows[i].book_id,
      name |-> x.rows[i].name,
      storage_location_id |-> IF "location_name" \in x.cols
                              THEN location_map(locs, x.rows[i].location)
                              ELSE NoId,
      nan |-> /\ "location_name" \in x.cols
              /\ x.rows[i].location \notin LocationNames(locs),
      status |-> DF_STATUS]]

\* the INSERT ... ON CONFLICT (book_id) DO UPDATE statement is refused: a
\* null name, a NaN for the integer storage_location_id, a status outside
\* the CHECK, or two rows of the batch with one book_id
upsert_refused(recs) ==
  \/ \E i \in DOMAIN recs : \/ recs[i].name = NULL
                            \/ recs[i].nan
                            \/ ~check_book_status(recs[i].status)
  \/ \E i, j \in DOMAIN recs : i # j /\ recs[i].book_id = recs[j].book_id

\* load_books, lines 62-125, as a function of the books table: one upsert
\* over the batch inside engine.begin(); on a conflict name, location and
\* status are taken from the batch (excluded.*).  The statement names the
\* columns book_category and book_category_label, so it runs against a
\* books table that has them; they decide nothing here.
LoadBooks(bks, locs, x, up) ==
  IF x.kind # "DataFrame" \/ ~up THEN [raise |-> TRUE, books |-> bks]
  ELSE LET recs == books_to_insert(locs, x)
           ids == {recs[i].book_id : i \in DOMAIN recs}
           rec(b) == CHOOSE r \in Range(recs) : r.book_id = b
       IN IF recs = <<>> THEN [raise |-> FALSE, books |-> bks]
          ELSE IF upsert_refused(recs) THEN [raise |-> TRUE, books |-> bks]
          ELSE [raise |-> FALSE,
                books |-> [b \in DOMAIN bks \cup ids |->
                             IF b \in ids
                             THEN [status |-> rec(b).status,
                                   name |-> rec(b).name,
                                   storage_location_id |-> rec(b).storage_location_id]
                             ELSE bks[b]]]

\* the books a load has written
Written(x, out) ==
  IF out.raise \/ x.kind # "DataFrame" THEN {}
  ELSE {x.rows[i].book_id : i \in DOMAIN x.rows}

load_locations(x, up) ==
  /\ \E out \in LoadLocations(locations, x, up) : locations' = out.locations
  /\ UNCHANGED <<books, streak, categories, csv, backend>>

load_books(x, up) ==
  /\ LET out == LoadBooks(books, locations, x, up)
     IN /\ books' = out.books
        /\ streak' = [b \in BookIds |-> IF b \in Written(x, out) THEN 0 ELSE streak[b]]
  /\ UNCHANGED <<locations, categories, csv, backend>>

-----------------------------------------------------------------------------
(* csv_loader/main.py *)

\* what is known of the last bulk-load call: the function called, whether
\* it returned or raised, the stages it invoked, the location names it
\* inserted, and how many times in a row run_pipeline has run
\* the last call of a loader entry point: result, whether an error ended
\* its work; returned, whether it returned normally to its caller; calls,
\* the stages it invoked or the rows it reported; added, the names or ids
\* it wrote; ids, the ids it generated, in row order
NoJob == [op |-> "none", result |-> "none", calls |-> <<>>, added |-> {}, runs |-> 0,
          returned |-> TRUE, ids |-> <<>>]

Report(op, raised, calls, added) ==
  [op |-> op,
   result |-> IF raised THEN "raise" ELSE "ok",
   calls |-> calls,
   added |-> added,
   runs |-> IF op # "run_pipeline" THEN 0
            ELSE IF job.op = "run_pipeline" /\ job.runs >= 1 THEN 2 ELSE 1,
   returned |-> ~raised,
   ids |-> <<>>]

\* run_pipeline, lines 24-44: the five stages in sequence, each handed
\* what the one before returned; an exception of a stage ends the run.
\* load_locations and load_books each open and commit their own
\* transaction.
run_pipeline(file, ids, up1, up2) ==
  LET e == extract_data(file) IN
  IF e.raise
  THEN /\ job' = Report("run_pipeline", TRUE, <<"extract_data">>, {})
       /\ UNCHANGED <<books, streak, locations, categories, csv, backend>>
  ELSE
    LET df_transformed == transform_data(e.value, ids)
        calls3 == <<"extract_data", "transform_data", "validate_data">>
    IN IF validate_data(df_transformed) = "raise"
       THEN /\ job' = Report("run_pipeline", TRUE, calls3, {})
            /\ UNCHANGED <<books, streak, locations, categories, csv, backend>>
       ELSE \E l \in LoadLocations(locations, df_transformed, up1) :
              IF l.raise
              THEN /\ job' = Report("run_pipeline", TRUE, Append(calls3, "load_locations"), {})
                   /\ UNCHANGED <<books, streak, locations, categories, csv, backend>>
              ELSE LET b == LoadBooks(books, l.locations, df_transformed, up2)
                   IN /\ locations' = l.locations
                      /\ books' = b.books
                      /\ job' = Report("run_pipeline", b.raise,
                                       calls3 \o <<"load_locations", "load_books">>,
                                       LocationNames(l.locations) \ LocationNames(locations))
                      /\ UNCHANGED <<streak, categories, csv, backend>>

-----------------------------------------------------------------------------

\* after construction: empty tables, no request in flight
Init ==
  /\ books = <<>>
  /\ transactions = <<>>
  /\ teachers = {}
  /\ next_teacher_id = 1
  /\ req = [r \in Reqs |-> IdleReq]
  /\ effects = [r \in Reqs |-> {}]
  /\ raced = [r \in Reqs |-> {}]
  /\ streak = [b \in BookIds |-> 0]
  /\ locations = <<>>
  /\ categories = <<>>
  /\ csv = NoFile
  /\ job = NoJob
  /\ session = <<>>

\* no handler is between its first statement and its return
Quiet == \A r \in Reqs : req[r].pc \in {"idle", "done"}

\* one worker: every handler is an async def without an await, so the event
\* loop runs it from its first statement to its return before the next one
Next ==
  \/ UNCHANGED etl /\ Quiet /\ \E r \in Reqs, b \in BookIds, t \in TeacherIds, a \in Actions : Receive(r, b, t, a)
  \/ UNCHANGED etl /\ \E r \in Reqs : ReadBook(r)
  \/ UNCHANGED etl /\ \E r \in Reqs : Write(r)
  \/ UNCHANGED etl /\ Quiet /\ \E b \in BookIds : create_book(b)
  \/ UNCHANGED etl /\ Quiet /\ \E b \in BookIds, st \in BookStatus \cup {NULL, UNSET} : update_book(b, st)
  \/ UNCHANGED etl /\ Quiet /\ \E b \in BookIds : delete_book(b)
  \/ UNCHANGED etl /\ Quiet /\ create_teacher
  \/ UNCHANGED etl /\ Quiet /\ \E t \in TeacherIds : delete_teacher(t)
  \/ UNCHANGED etl /\ Quiet /\ \E ids \in SUBSET BookIds, up \in BOOLEAN : load_books(IdFrame(ids), up)

\* several workers on one database: the handlers interleave at their
\* database round trips (the read of the book, the commit)
NextConc ==
  \/ UNCHANGED etl /\ \E r \in Reqs, b \in BookIds, t \in TeacherIds, a \in Actions : Receive(r, b, t, a)
  \/ UNCHANGED etl /\ \E r \in Reqs : ReadBook(r)
  \/ UNCHANGED etl /\ \E r \in Reqs : Write(r)
  \/ UNCHANGED etl /\ \E b \in BookIds : create_book(b)
  \/ UNCHANGED etl /\ \E b \in BookIds, st \in BookStatus \cup {NULL, UNSET} : update_book(b, st)
  \/ UNCHANGED etl /\ \E b \in BookIds : delete_book(b)
  \/ UNCHANGED etl /\ create_teacher
  \/ UNCHANGED etl /\ \E t \in TeacherIds : delete_teacher(t)
  \/ UNCHANGED etl /\ \E ids \in SUBSET BookIds, up \in BOOLEAN : load_books(IdFrame(ids), up)

Spec == Init /\ [][Next]_vars

SpecConc == Init /\ [][NextConc]_vars

-----------------------------------------------------------------------------
(* The csv_loader package on its own: one input, and the calls a driver can
   make with it *)

\* the ids uuid4 hands out for n rows: n values that differ, named in the
\* order they are generated
UuidSeqs(n) == {[i \in 1..n |-> "uuid-" \o ToString(i)]}

\* validate_data called on the frame
call_validate_data ==
  /\ csv # NoFile
  /\ job' = Report("validate_data", validate_data(Frame) = "raise", <<>>, {})
  /\ UNCHANGED <<books, streak, locations, categories, csv, backend>>

\* transform_data called on what extract_data read
call_transform_data ==
  /\ csv # NoFile
  /\ \E ids \in UuidSeqs(Len(csv.rows)) :
       LET books_df == transform_data(extract_data(csv).value, ids).items[1]
       IN job' = [Report("transform_data", FALSE, <<>>, {})
                    EXCEPT !.ids = [i \in DOMAIN books_df.rows |-> books_df.rows[i].book_id]]
  /\ UNCHANGED <<books, streak, locations, categories, csv, backend>>

\* load_locations called on the frame
call_load_locations(up) ==
  /\ csv # NoFile
  /\ load_locations(Frame, up)
  /\ job' = Report("load_locations",
                   \E out \in LoadLocations(locations, Frame, up) : out.raise,
                   <<>>, LocationNames(locations') \ LocationNames(locations))

\* load_books called on the frame
call_load_books(up) ==
  /\ csv # NoFile
  /\ load_books(Frame, up)
  /\ job' = Report("load_books", LoadBooks(books, locations, Frame, up).raise, <<>>, {})

\* python main.py <file>
call_run_pipeline ==
  \E ids \in UuidSeqs(IF csv = NoFile THEN 0 ELSE Len(csv.rows)), up1, up2 \in BOOLEAN :
    run_pipeline(csv, ids, up1, up2)

\* the tables as an earlier load of another file can have left them, and
\* the input of this one
InitCsv ==
  /\ books = <<>>
  /\ transactions = <<>>
  /\ teachers = {}
  /\ next_teacher_id = 1
  /\ req = [r \in Reqs |-> IdleReq]
  /\ effects = [r \in Reqs |-> {}]
  /\ raced = [r \in Reqs |-> {}]
  /\ streak = [b \in BookIds |-> 0]
  /\ locations \in {<<>>, <<[location_name |-> "Shelf A", category_label |-> NULL]>>}
  /\ categories = <<>>
  /\ csv \in Inputs
  /\ job = NoJob
  /\ session = <<>>

NextCsv ==
  \/ call_run_pipeline
  \/ call_transform_data
  \/ call_validate_data
  \/ \E up \in BOOLEAN : call_load_locations(up)
  \/ \E up \in BOOLEAN : call_load_books(up)

SpecCsv == InitCsv /\ [][NextCsv]_vars

-----------------------------------------------------------------------------
(* Reading a step of a submission *)

\* request r's handler returns in this step
Returns(r) == req[r].pc \in {"received", "validated"} /\ req'[r].pc = "done"

\* the status the handler of r read for its book ("none": no such book)
StatusRead(r) ==
  IF req[r].pc = "validated" THEN req[r].book_status
  ELSE IF req[r].book_id \in DOMAIN books THEN books[req[r].book_id].status
  ELSE "none"

\* no other submission on book b is under way
Alone(r, b) == \A q \in Reqs \ {r} : req[q].pc \in {"idle", "done"} \/ req[q].book_id # b

\* the step appends exactly one row, for book b with action a
AppendsRow(b, a) ==
  /\ Len(transactions') = Len(transactions) + 1
  /\ SubSeq(transactions', 1, Len(transactions)) = transactions
  /\ transactions'[Len(transactions')].book_id = b
  /\ transactions'[Len(transactions')].action = a

\* the book of r exists with status st, the handler read it so, and the
\* teacher of r exists
Ready(r, st) ==
  /\ StatusRead(r) = st
  /\ req[r].book_id \in DOMAIN books
  /\ books[req[r].book_id].status = st
  /\ req[r].teacher_id \in teachers

\* the action is not legal for the status
Illegal(a, st) ==
  \/ st \in {"Lost", "Archived"}
  \/ a = "borrow" /\ st = "On Loan"
  \/ a = "return" /\ st = "Available"

-----------------------------------------------------------------------------
(* Claims *)

\* C1: a borrow submitted for an existing book whose status is Available
\* succeeds; afterwards the book is On Loan and the log has grown by exactly
\* one row, a borrow of that book.
C1_BorrowOnAvailable ==
  [][\A r \in Reqs :
       (Returns(r) /\ req[r].action = "borrow" /\ Ready(r, "Available"))
       => /\ req'[r].result = "201"
          /\ req[r].book_id \in DOMAIN books'
          /\ books'[req[r].book_id].status = "On Loan"
          /\ AppendsRow(req[r].book_id, "borrow")]_vars

\* C2: a return submitted for an existing book whose status is On Loan
\* succeeds; afterwards the book is Available and the log has grown by
\* exactly one row, a return of that book.
C2_ReturnOnLoan ==
  [][\A r \in Reqs :
       (Returns(r) /\ req[r].action = "return" /\ Ready(r, "On Loan"))
       => /\ req'[r].result = "201"
          /\ req[r].book_id \in DOMAIN books'
          /\ books'[req[r].book_id].status = "Available"
          /\ AppendsRow(req[r].book_id, "return")]_vars

\* C3: the status update and the Transaction insert of one submission are
\* one unit: no step of a handler, successful or failed, leaves the store
\* with the new row but the old status, or with the new status but no row.
C3_Atomic ==
  [][\A r \in Reqs :
       req'[r] # req[r]
       => \/ /\ transactions' = transactions
             /\ books' = books
          \/ /\ req[r].pc = "validated"
             /\ AppendsRow(req[r].book_id, req[r].action)
             /\ req[r].book_id \in DOMAIN books
             /\ books' = [books EXCEPT ![req[r].book_id].status = req[r].new_status]
             /\ books' # books]_vars

\* C3 witness: a submission for an existing teacher got as far as db.add()
\* and failed; its book is there, unchanged, and the log has no row
C3_Witness ==
  \E r \in Reqs :
    /\ req[r].pc = "done" /\ req[r].result = "500"
    /\ teachers # {}
    /\ books # <<>>
    /\ \A b \in DOMAIN books : books[b].status = DF_STATUS
    /\ transactions = <<>>
    /\ effects[r] = {}

\* C4: of two concurrent borrows of the same Available book exactly one
\* succeeds, the other is answered 400 like any illegal transition, and
\* exactly one Transaction row is created.
C4_OneBorrowWins ==
  \A r, q \in Reqs :
    (/\ r # q
     /\ req[r].pc = "done" /\ req[q].pc = "done"
     /\ raced[r] = {q} /\ raced[q] = {})
    => /\ {req[r].result, req[q].result} = {"201", "400"}
       /\ Cardinality({x \in {r, q} : "row" \in effects[x]}) = 1

\* C5: borrow and return on a Lost or Archived book, borrow on an On Loan
\* book and return on an Available book are each rejected with a
\* precondition-violation error (the handler's 400).
C5_IllegalRejected ==
  [][\A r \in Reqs :
       (Returns(r) /\ Illegal(req[r].action, StatusRead(r)))
       => req'[r].result = "400"]_vars

\* C6: a submission that is rejected (book not found, illegal action, or any
\* other failure) leaves the store as it was: no step of its handler changes
\* a book or adds a Transaction row.
C6_RejectedLeavesStore ==
  [][\A r \in Reqs :
       (req'[r] # req[r] /\ req'[r].result # "201")
       => /\ books' = books
          /\ transactions' = transactions]_vars

\* C6 witness: one submission was answered 404 and another, for a book that
\* exists, was turned down; a book is On Loan and the log is empty
C6_Witness ==
  \E r, q \in Reqs :
    /\ req[r].pc = "done" /\ req[r].result = "404"
    /\ req[q].pc = "done" /\ req[q].result \notin {"none", "201", "404"}
    /\ \E b \in DOMAIN books : books[b].status = "On Loan"
    /\ transactions = <<>>

\* C7: from an Available book, borrow, return, borrow, return submitted one
\* after the other all succeed and leave the book Available; a return
\* submitted first on an Available book fails and leaves the status as it is.
C7_LegalAlternation ==
  [][\A r \in Reqs :
       Returns(r) =>
         LET b == req[r].book_id
             a == req[r].action
             k == IF b \in BookIds THEN streak[b] ELSE 0
         IN /\ (/\ Alone(r, b)
                /\ k < 4
                /\ a = (IF k % 2 = 0 THEN "borrow" ELSE "return")
                /\ Ready(r, IF k % 2 = 0 THEN "Available" ELSE "On Loan"))
               => /\ req'[r].result = "201"
                  /\ (k = 3 => b \in DOMAIN books' /\ books'[b].status = "Available")
            /\ (Alone(r, b) /\ k = 0 /\ a = "return" /\ Ready(r, "Available"))
               => /\ req'[r].result # "201"
                  /\ books' = books]_vars

\* C9: every Book row's status is one of Available, On Loan, Lost, Archived.
C9_StatusValid == \A b \in DOMAIN books : books[b].status \in BookStatus

\* C9 witness: a submission, an administrative edit and a bulk load have
\* run: one book was edited to Archived, another holds the status the load
\* gave it, and a submission for an existing book has returned
C9_Witness ==
  /\ \E b \in DOMAIN books : books[b].status = "Archived"
  /\ \E b \in DOMAIN books : books[b].status = DF_STATUS
  /\ \E r \in Reqs : req[r].pc = "done" /\ req[r].result = "500"

\* C10: a submission whose book id or teacher id does not exist fails with
\* a precondition-violation error (the handler's 404 or 400), creates no
\* Transaction row and changes no book.
C10_UnknownIds ==
  [][\A r \in Reqs :
       (/\ Returns(r)
        /\ \/ req[r].book_id \notin DOMAIN books
           \/ req[r].teacher_id \notin teachers)
       => /\ req'[r].result \in {"404", "400"}
          /\ books' = books
          /\ transactions' = transactions]_vars

-----------------------------------------------------------------------------
(* csv_loader/load_books.py, validate.py and loader.py: the sheet loaders *)

\* String(255) of books.name; max_value of the book_name expectation
NAME_MAX == 255

\* a book name of 256 characters
LONG_NAME == "aaaaaaaaaaaaaaaaaaaaaaaaaaaaaaaaaaaaaaaaaaaaaaaaaaaaaaaaaaaaaaaaaaaaaaaaaaaaaaaaaaaaaaaaaaaaaaaaaaaaaaaaaaaaaaaaaaaaaaaaaaaaaaaaaaaaaaaaaaaaaaaaaaaaaaaaaaaaaaaaaaaaaaaaaaaaaaaaaaaaaaaaaaaaaaaaaaaaaaaaaaaaaaaaaaaaaaaaaaaaaaaaaaaaaaaaaaaaaaaaaaaaaaaaaaaaaaaa"

\* the header of the sheet load_books.py reads, and of the one loader.py reads
GEN_COLS == {"category_name", "category_label", "book_name", "location"}
ORM_COLS == {"Category", "category_label", "book_name", "Location"}

\* a line of the sheet: the cells under the category name, the category
\* label, the book name and the location
SheetRows ==
  [category_name : {"Novels", NULL},
   category_label : {"A", " A"},
   book_name : {"Book", LONG_NAME, NULL},
   location : {"Shelf A"}]

SheetSeqs == UNION {[1..n -> SheetRows] : n \in 0..MaxRows}

Sheets == {NoFile} \cup [kind : {"file"}, cols : {GEN_COLS, ORM_COLS}, rows : SheetSeqs]

\* row[col] / row.get(col): the cell of the row under the header col
Cell(df, row, col) ==
  IF col \notin df.cols THEN NULL
  ELSE IF col \in {"category_name", "Category"} THEN row.category_name
  ELSE IF col = "category_label" THEN row.category_label
  ELSE IF col = "book_name" THEN row.book_name
  ELSE row.location

\* str.strip on the values a cell can hold
strip(s) == IF s = " A" THEN "A" ELSE s

\* validate_book_data: the four required columns exist and hold no null,
\* and every book_name has 1 to 255 characters
required_columns == {"category_name", "category_label", "book_name", "location"}

validate_book_data(df) ==
  /\ required_columns \subseteq df.cols
  /\ \A i \in DOMAIN df.rows, c \in required_columns : Cell(df, df.rows[i], c) # NULL
  /\ \A i \in DOMAIN df.rows : Len(df.rows[i].book_name) \in 1..NAME_MAX

\* str(n).zfill(width)
RECURSIVE zfill(_, _)
zfill(s, width) == IF Len(s) >= width THEN s ELSE zfill("0" \o s, width)

\* f"{category_label}-{str(book_num).zfill(3)}"
book_id(category_label, book_num) == category_label \o "-" \o zfill(ToString(book_num), 3)

\* the database as one run sees it, and the ids the run has given out
Tables == [categories |-> categories, locations |-> locations, books |-> books,
           ids |-> <<>>, log |-> <<>>, to_add |-> <<>>]

\* a variant of the category statement without ON CONFLICT
InsertCategory(cats, name, label) ==
  Append(cats, [category_name |-> name, category_label |-> label])

\* INSERT INTO categories ... ON CONFLICT (category_label) DO UPDATE SET
\* category_name, lines 71-78
UpsertCategory(cats, name, label) ==
  LET hit == {i \in DOMAIN cats : cats[i].category_label = label}
  IN IF hit = {} THEN Append(cats, [category_name |-> name, category_label |-> label])
     ELSE [i \in DOMAIN cats |-> IF i \in hit THEN [cats[i] EXCEPT !.category_name = name]
                                 ELSE cats[i]]

\* category_id of the row with the label (the position of the row stands
\* for its serial id: no code deletes a category)
CategoryId(cats, label) == CHOOSE i \in DOMAIN cats : cats[i].category_label = label

\* SELECT COUNT(*) FROM books WHERE category_id = :cat_id
CountBooks(bks, cat_id) == Cardinality({b \in DOMAIN bks : bks[b].category_id = {cat_id}})

\* a variant of the allocator that takes the first candidate
FirstCandidate(bks, label, book_num) == book_num

\* the collision check, lines 119-124: the first number from book_num on
\* whose id no book has
RECURSIVE Probe(_, _, _)
Probe(bks, label, book_num) ==
  IF book_id(label, book_num) \in DOMAIN bks THEN Probe(bks, label, book_num + 1)
  ELSE book_num

\* one pass of the loop of load_books.py, lines 67-136
LoadRow(t, row) ==
  LET cats == UpsertCategory(t.categories, row.category_name, row.category_label)
      category_id == CategoryId(cats, row.category_label)
      loc_res == {i \in DOMAIN t.locations :
                    /\ t.locations[i].location_name = row.location
                    /\ t.locations[i].category_label = row.category_label}
      locs == IF loc_res # {} THEN t.locations
              ELSE Append(t.locations, [location_name |-> row.location,
                                        category_label |-> row.category_label])
      location_id == IF loc_res # {} THEN CHOOSE i \in loc_res : \A j \in loc_res : i <= j
                     ELSE Len(locs)
      count == CountBooks(t.books, category_id)
      id == book_id(row.category_label, Probe(t.books, row.category_label, count + 1))
      book == [status |-> "Available", name |-> row.book_name,
               storage_location_id |-> {location_id}, category_id |-> {category_id}]
  IN [t EXCEPT !.categories = cats,
               !.locations = locs,
               !.books = t.books @@ (id :> book),
               !.ids = Append(t.ids, id)]

RECURSIVE LoadRows(_, _, _)
LoadRows(t, rows, i) ==
  IF i > Len(rows) THEN t ELSE LoadRows(LoadRow(t, rows[i]), rows, i + 1)

\* load_data of load_books.py, lines 44-143: the outcomes it can have.  No
\* file or a failed validate_book_data: sys.exit(1) before the database is
\* opened.  up: the database answers; when it does not, either
\* engine.connect() raises, which nothing catches, or a statement of a row
\* raises, which lines 138-140 print and pass over: the statements after
\* it fail in the aborted transaction, conn.commit() commits nothing and
\* load_data returns after "Data load complete.".  (The sheet's values fit
\* their columns once validate_book_data has passed, so no row raises by
\* itself.)
LoadData(t, file, up) ==
  IF file = NoFile THEN {[error |-> TRUE, returned |-> FALSE, tables |-> t]}
  ELSE IF ~validate_book_data(file) THEN {[error |-> TRUE, returned |-> FALSE, tables |-> t]}
  ELSE IF ~up THEN {[error |-> TRUE, returned |-> caught, tables |-> t] : caught \in BOOLEAN}
  ELSE {[error |-> FALSE, returned |-> TRUE, tables |-> LoadRows(t, file.rows, 1)]}

\* the name loader.py gives a book without location (three CJK characters
\* in the source, line 116)
UNCATEGORIZED == "uncategorized"

\* a variant of the id of loader.py that does not depend on chance
uuid_fixed(taken) == "uuid-1"

\* str(uuid.uuid4()): an id no book and no earlier row of the run has
uuid4(taken) ==
  LET k == CHOOSE k \in 1..(Cardinality(taken) + 1) :
             /\ ("uuid-" \o ToString(k)) \notin taken
             /\ \A j \in 1..(k - 1) : ("uuid-" \o ToString(j)) \in taken
  IN "uuid-" \o ToString(k)

\* one pass of the loop of loader.py, lines 85-157
OrmRow(t, df, i) ==
  LET row == df.rows[i]
      cat_name == Cell(df, row, "Category")
      cat_label == Cell(df, row, "category_label")
      known == {j \in DOMAIN t.categories : t.categories[j].category_label = strip(cat_label)}
      cats == IF known # {} THEN t.categories
              ELSE Append(t.categories, [category_name |-> strip(cat_name),
                                         category_label |-> strip(cat_label)])
      cat_id == CategoryId(cats, strip(cat_label))
      raw_loc == Cell(df, row, "Location")
      loc_name == IF raw_loc = NULL \/ strip(raw_loc) = "" THEN UNCATEGORIZED ELSE strip(raw_loc)
      cached == {j \in DOMAIN t.locations : t.locations[j].location_name = loc_name}
      locs == IF cached # {} THEN t.locations
              ELSE Append(t.locations, [location_name |-> loc_name, category_label |-> NULL])
      loc_id == IF cached # {} THEN CHOOSE j \in cached : \A k \in cached : k <= j
                ELSE Len(locs)
      book_name == Cell(df, row, "book_name")
      taken == DOMAIN t.books \cup {t.to_add[j].book_id : j \in DOMAIN t.to_add}
      book == [book_id |-> uuid4(taken), status |-> "Available", name |-> strip(book_name),
               storage_location_id |-> {loc_id}, category_id |-> {cat_id}]
  IN IF cat_name = NULL \/ cat_label = NULL
     THEN [t EXCEPT !.log = Append(t.log, <<"Skipping row", i>>)]
     ELSE IF book_name = NULL
          THEN [t EXCEPT !.categories = cats, !.locations = locs]
          ELSE [t EXCEPT !.categories = cats, !.locations = locs,
                         !.to_add = Append(t.to_add, book),
                         !.ids = Append(t.ids, book.book_id)]

RECURSIVE OrmRows(_, _, _)
OrmRows(t, df, i) ==
  IF i > Len(df.rows) THEN t ELSE OrmRows(OrmRow(t, df, i), df, i + 1)

\* db.bulk_save_objects(books_to_add)
bulk_save_objects(bks, to_add) ==
  [b \in DOMAIN bks \cup {to_add[j].book_id : j \in DOMAIN to_add} |->
     IF b \in DOMAIN bks THEN bks[b]
     ELSE LET j == CHOOSE j \in DOMAIN to_add : to_add[j].book_id = b
          IN [status |-> to_add[j].status, name |-> to_add[j].name,
              storage_location_id |-> to_add[j].storage_location_id,
              category_id |-> to_add[j].category_id]]

\* load_data of loader.py, lines 50-171: no file, return; one session for
\* the whole sheet; a name longer than String(255) is refused by the
\* bulk insert, and any exception (up = FALSE: the database does not
\* answer) is printed and the session rolled back, lines 167-171, after
\* which load_data returns
OrmLoadData(t, file, up) ==
  IF file = NoFile THEN [error |-> FALSE, returned |-> TRUE, tables |-> t]
  ELSE IF ~up THEN [error |-> TRUE, returned |-> TRUE, tables |-> t]
  ELSE LET r == OrmRows(t, file, 1)
       IN IF \E j \in DOMAIN r.to_add : Len(r.to_add[j].name) > NAME_MAX
          THEN [error |-> TRUE, returned |-> TRUE, tables |-> [t EXCEPT !.log = r.log]]
          ELSE [error |-> FALSE, returned |-> TRUE,
                tables |-> [r EXCEPT !.books = bulk_save_objects(r.books, r.to_add)]]

\* python load_books.py <sheet>
load_data(up) ==
  /\ Cardinality(DOMAIN books) + (IF csv = NoFile THEN 0 ELSE Len(csv.rows)) <= MaxShelf
  /\ \E out \in LoadData(Tables, csv, up) :
        /\ categories' = out.tables.categories
        /\ locations' = out.tables.locations
        /\ books' = out.tables.books
        /\ job' = [Report("load_books.py", out.error, out.tables.log, Range(out.tables.ids))
                     EXCEPT !.returned = out.returned, !.ids = out.tables.ids]
  /\ UNCHANGED <<streak, csv, backend>>

\* python loader.py
loader_load_data(up) ==
  /\ Cardinality(DOMAIN books) + (IF csv = NoFile THEN 0 ELSE Len(csv.rows)) <= MaxShelf
  /\ LET out == OrmLoadData(Tables, csv, up)
     IN /\ categories' = out.tables.categories
        /\ locations' = out.tables.locations
        /\ books' = out.tables.books
        /\ job' = [Report("loader.py", out.error, out.tables.log, Range(out.tables.ids))
                     EXCEPT !.returned = out.returned, !.ids = out.tables.ids]
  /\ UNCHANGED <<streak, csv, backend>>

\* DELETE /books/{book_id} between two loads
call_delete_book ==
  \E b \in DOMAIN books :
    /\ delete_book(b)
    /\ job' = Report("delete_book", FALSE, <<>>, {})
    /\ UNCHANGED <<locations, categories, csv, session>>

\* an empty database and the sheet to load
InitLoad ==
  /\ books = <<>>
  /\ transactions = <<>>
  /\ teachers = {}
  /\ next_teacher_id = 1
  /\ req = [r \in Reqs |-> IdleReq]
  /\ effects = [r \in Reqs |-> {}]
  /\ raced = [r \in Reqs |-> {}]
  /\ streak = <<>>
  /\ locations = <<>>
  /\ categories = <<>>
  /\ csv \in Sheets
  /\ job = NoJob
  /\ session = <<>>

NextLoad ==
  \/ \E up \in BOOLEAN : load_data(up)
  \/ \E up \in BOOLEAN : loader_load_data(up)
  \/ call_delete_book

SpecLoad == InitLoad /\ [][NextLoad]_vars

-----------------------------------------------------------------------------
(* Claims about the csv_loader package *)

\* the input is a file whose rows are complete and carry distinct ids
WellFormed ==
  /\ csv # NoFile
  /\ csv.rows # <<>>
  /\ \A i \in DOMAIN csv.rows : csv.rows[i].name # NULL /\ csv.rows[i].location # NULL
  /\ \A i, j \in DOMAIN csv.rows : csv.rows[i].book_id = csv.rows[j].book_id => i = j

ExternalIds == {csv.rows[i].book_id : i \in DOMAIN csv.rows}

\* C11: when the bulk load has run a second time on the same rows, the
\* store holds one Book row for each external id of the input, and the
\* second run has inserted no row.
C11_LoadTwice ==
  [][(job'.op = "run_pipeline" /\ job'.runs = 2 /\ WellFormed)
     => /\ ExternalIds \subseteq DOMAIN books'
        /\ DOMAIN books' = DOMAIN books]_vars

\* C13: a bulk load run that hits an unrecoverable error leaves the
\* locations and books tables as they were before the run started, be the
\* run run_pipeline or load_locations followed by load_books on one input.
C13_FailedRunRolledBack ==
  [][/\ (job'.op = "run_pipeline" /\ job'.result = "raise")
        => locations' = locations /\ books' = books
     /\ (/\ job.op = "load_locations" /\ job.result = "ok"
         /\ job'.op = "load_books" /\ job'.result = "raise")
        => /\ books' = books
           /\ LocationNames(locations') \cap job.added = {}]_vars

\* every expectation of validate_data succeeds on the frame
Sound ==
  /\ csv # NoFile
  /\ csv.cols = FULL_COLS
  /\ \A i \in DOMAIN csv.rows : csv.rows[i].name # NULL /\ csv.rows[i].location # NULL
  /\ \A i, j \in DOMAIN csv.rows : csv.rows[i].book_id = csv.rows[j].book_id => i = j

C17_LoadKeepsStatus ==
  [][\A ids \in SUBSET BookIds :
       load_books(IdFrame(ids), TRUE)
       => \A b \in DOMAIN books : books'[b].status = books[b].status]_vars

\* stage a is invoked before stage b
Before(calls, a, b) ==
  \A i \in DOMAIN calls : calls[i] = b => \E j \in 1..(i - 1) : calls[j] = a

\* C18: within one run, dimension resolution (load_locations) precedes
\* every allocation of a book id (transform_data's generate_book_id), and
\* the allocation precedes the writing of book rows (load_books).
C18_PhaseOrder ==
  job.op = "run_pipeline"
  => /\ Before(job.calls, "load_locations", "transform_data")
     /\ Before(job.calls, "transform_data", "load_books")

\* C19: run_pipeline on a well-formed file invokes extract_data,
\* transform_data, validate_data, load_locations, load_books, each once and
\* in that order.
C19_FiveStages ==
  (job.op = "run_pipeline" /\ WellFormed)
  => job.calls = <<"extract_data", "transform_data", "validate_data",
                   "load_locations", "load_books">>

-----------------------------------------------------------------------------
(* Claims about the sheet loaders *)

Labels(cats) == {cats[i].category_label : i \in DOMAIN cats}

LocationKeys(locs) == {<<locs[i].location_name, locs[i].category_label>> : i \in DOMAIN locs}

\* the labels of the rows the loader named by op takes from the sheet
SeenLabels(op) ==
  IF csv = NoFile THEN {}
  ELSE IF op = "load_books.py" THEN {csv.rows[i].category_label : i \in DOMAIN csv.rows}
  ELSE {strip(csv.rows[i].category_label) :
          i \in {j \in DOMAIN csv.rows : /\ Cell(csv, csv.rows[j], "Category") # NULL
                                         /\ Cell(csv, csv.rows[j], "category_label") # NULL}}

\* C12: the categories table never holds two rows with one label; a load
\* that completes leaves a row for every label of the rows it took and
\* for no other new label; it keeps the rows that existed, and creates a
\* category or location row only for a key no row had.
C12_OneCategoryPerLabel ==
  [][/\ \A i, j \in DOMAIN categories' :
          categories'[i].category_label = categories'[j].category_label => i = j
     /\ (job'.op \in {"load_books.py", "loader.py"} /\ job'.result = "ok")
        => /\ Labels(categories') = Labels(categories) \cup SeenLabels(job'.op)
           /\ Len(categories') >= Len(categories)
           /\ \A i \in DOMAIN categories :
                categories'[i].category_label = categories[i].category_label
           /\ SubSeq(locations', 1, Len(locations)) = locations
           /\ \A i \in (Len(locations) + 1)..Len(locations') :
                /\ <<locations'[i].location_name, locations'[i].category_label>>
                     \notin LocationKeys(locations)
                /\ \A j \in (Len(locations) + 1)..Len(locations') :
                     (/\ locations'[i].location_name = locations'[j].location_name
                      /\ locations'[i].category_label = locations'[j].category_label)
                     => i = j]_vars

\* C12 witness: a sheet of two rows with one label has been loaded more
\* than once, and the table holds one category
C12_Witness ==
  /\ job.op = "load_books.py"
  /\ job.result = "ok"
  /\ Len(csv.rows) = 2
  /\ csv.rows[1].category_label = csv.rows[2].category_label
  /\ Cardinality(DOMAIN books) > Len(csv.rows)
  /\ Len(categories) = 1

\* the row passes the structural validation: no required cell is missing
\* and the book name fits
ValidRow(row) ==
  /\ row.category_name # NULL
  /\ row.category_label # NULL
  /\ row.location # NULL
  /\ row.book_name # NULL
  /\ Len(row.book_name) <= NAME_MAX

\* the run has recorded each invalid row as skipped and loaded a book for
\* every other row
SkipsAndContinues ==
  LET bad == {i \in DOMAIN csv.rows : ~ValidRow(csv.rows[i])}
  IN /\ job'.result = "ok"
     /\ {job'.calls[k][2] : k \in DOMAIN job'.calls} = bad
     /\ Cardinality(DOMAIN books') =
          Cardinality(DOMAIN books) + Cardinality(DOMAIN csv.rows \ bad)

\* C14: a loader that runs on a sheet with its own header, the database
\* answering, records every row that fails the structural validation as
\* skipped and loads every other row.
C14_SkipAndContinue ==
  [][/\ (csv # NoFile /\ csv.cols = GEN_COLS /\ load_data(TRUE)) => SkipsAndContinues
     /\ (csv # NoFile /\ csv.cols = ORM_COLS /\ loader_load_data(TRUE)) => SkipsAndContinues]_vars

\* the books the category with the label has
CountOfLabel(label) ==
  Cardinality({b \in DOMAIN books :
                 \E i \in DOMAIN categories : /\ categories[i].category_label = label
                                               /\ books[b].category_id = {i}})

\* C16: the ids load_books.py gives the rows of a run are not in the store
\* and differ from each other; each is built from a number above the count
\* of the category's books, and every number between that count and it is
\* taken (so with -001..-003 present and counted the next row gets -004).
C16_AllocatorAvoidsTaken ==
  [][(load_data(TRUE) /\ job'.result = "ok")
     => /\ job'.added \cap DOMAIN books = {}
        /\ Cardinality(job'.added) = Len(csv.rows)
        /\ DOMAIN books' = DOMAIN books \cup job'.added
        /\ \A b \in job'.added :
             \E i \in DOMAIN csv.rows, n \in 1..(2 * MaxShelf + 1) :
               LET label == csv.rows[i].category_label
               IN /\ b = book_id(label, n)
                  /\ n > CountOfLabel(label)
                  /\ \A k \in (CountOfLabel(label) + 1)..(n - 1) :
                       book_id(label, k) \in DOMAIN books']_vars

\* C16 witness: with one book in the category and A-002 taken, the row got
\* A-003
C16_Witness ==
  /\ job.op = "load_books.py"
  /\ job.result = "ok"
  /\ job.added = {"A-003"}
  /\ "A-002" \in DOMAIN books
  /\ "A-001" \notin DOMAIN books

-----------------------------------------------------------------------------
(* Claims about errors, ids and links of the loads *)

\* C21: a load entry point that met a run-level error (the database not
\* answering, a failed statement, an aborted transaction) does not return
\* normally to its caller.
C21_ErrorPropagates ==
  [][(/\ csv # NoFile
      /\ job'.result = "raise"
      /\ \/ validate_book_data(csv) /\ load_data(FALSE)
         \/ loader_load_data(FALSE))
     => ~job'.returned]_vars

\* C23: transform_data gives the n-th row of the input the book_id that is
\* n as a two-digit zero-padded counter: 01, 02, ...
C23_SequentialIds ==
  job.op = "transform_data"
  => \A n \in DOMAIN job.ids : job.ids[n] = zfill(ToString(n), 2)

\* C24: the book_ids transform_data gives the rows of one batch are as many
\* as the rows.
C24_DistinctIds ==
  job.op = "transform_data"
  => /\ Len(job.ids) = Len(csv.rows)
     /\ Cardinality(Range(job.ids)) = Len(csv.rows)

\* C24 witness: transform_data has run on two rows that carry one source id
C24_Witness ==
  /\ job.op = "transform_data"
  /\ Len(job.ids) = 2
  /\ csv.rows[1].book_id = csv.rows[2].book_id

\* the frame names a location for row i
NamesLocation(i) ==
  /\ {"location", "location_name"} \cap csv.cols # {}
  /\ csv.rows[i].location # NULL

-----------------------------------------------------------------------------
(* Claims about the Generated-ID policy *)

\* the run adds as many books as the sheet has rows and leaves the books
\* there were as they are
AddsOnePerRow ==
  /\ Cardinality(DOMAIN books') = Cardinality(DOMAIN books) + Len(csv.rows)
  /\ \A b \in DOMAIN books : b \in DOMAIN books' /\ books'[b] = books[b]

\* C25: every run of a loader that generates the ids, on a sheet of valid
\* rows, adds one new Book row per row of the sheet, whatever earlier runs
\* on the same sheet have loaded, and updates no book.
C25_RerunAddsBooks ==
  [][/\ (csv # NoFile /\ validate_book_data(csv) /\ load_data(TRUE)) => AddsOnePerRow
     /\ (/\ csv # NoFile
         /\ csv.cols = ORM_COLS
         /\ \A i \in DOMAIN csv.rows : ValidRow(csv.rows[i])
         /\ loader_load_data(TRUE))
        => AddsOnePerRow]_vars

\* C25 witness: the sheet of two rows has been loaded a second time and the
\* store holds four books
C25_Witness ==
  /\ csv # NoFile
  /\ job.op \in {"load_books.py", "loader.py"}
  /\ job.result = "ok"
  /\ Len(csv.rows) = 2
  /\ Cardinality(job.added) = 2
  /\ Cardinality(DOMAIN books) = 4

\* the SELECTs of the collision check for one row, lines 119-124
RECURSIVE ProbeAttempts(_, _, _)
ProbeAttempts(bks, label, book_num) ==
  IF book_id(label, book_num) \in DOMAIN bks
  THEN 1 + ProbeAttempts(bks, label, book_num + 1)
  ELSE 1

\* the probes load_books.py makes for row i of the sheet
RowAttempts(i) ==
  LET t == LoadRows(Tables, SubSeq(csv.rows, 1, i - 1), 1)
      row == csv.rows[i]
      cats == UpsertCategory(t.categories, row.category_name, row.category_label)
      count == CountBooks(t.books, CategoryId(cats, row.category_label))
  IN ProbeAttempts(t.books, row.category_label, count + 1)

\* C26: the allocator of load_books.py makes at most ProbeLimit probes for
\* a row; a row that would need more is failed: recorded, and given no id.
C26_ProbeBounded ==
  [][(csv # NoFile /\ validate_book_data(csv) /\ load_data(TRUE))
     => \A i \in DOMAIN csv.rows :
          \/ RowAttempts(i) <= ProbeLimit
          \/ /\ \E k \in DOMAIN job'.calls : job'.calls[k][2] = i
             /\ Len(job'.ids) < Len(csv.rows)]_vars

-----------------------------------------------------------------------------
(* Claims about the status of a book and its transactions *)

\* the status of book b agrees with the last Transaction row of b
Tracks(b) ==
  LET rows == RowsOfBook(b)
      last == CHOOSE i \in rows : \A j \in rows : j <= i
  IN /\ books[b].status = "On Loan" <=> (rows # {} /\ transactions[last].action = "borrow")
     /\ books[b].status = "Available" <=> (rows = {} \/ transactions[last].action = "return")

\* the step is an administrative edit of book b or a bulk load over it
Edits(b) ==
  /\ b \in DOMAIN books
  /\ \/ \E st \in BookStatus \cup {NULL, UNSET} : update_book(b, st)
     \/ \E ids \in SUBSET BookIds, up \in BOOLEAN : b \in ids /\ load_books(IdFrame(ids), up)

\* C29: a book enters the store with a status that agrees with its (empty)
\* list of Transaction rows, and every step that is neither an
\* administrative edit of the book nor a bulk load over it keeps the
\* agreement: On Loan exactly when the last row is a borrow, Available
\* exactly when there is no row or the last one is a return.
C29_StatusTracksLog ==
  [][\A b \in BookIds :
       (/\ b \in DOMAIN books'
        /\ b \in DOMAIN books => Tracks(b))
       => Tracks(b)' \/ Edits(b)]_vars

\* C29 witness: a submission that passed the validation has been answered,
\* and a book is Available without a Transaction row
C29_Witness ==
  /\ \E r \in Reqs : req[r].pc = "done" /\ req[r].result = "500"
  /\ \E b \in DOMAIN books : books[b].status = "Available" /\ RowsOfBook(b) = {}

-----------------------------------------------------------------------------
(* csv_loader/loader.py run by two processes at once, each in its own
   session (READ COMMITTED: a statement sees what is committed and what
   its own session has written).  Here the rows of categories and
   locations carry their serial ids. *)

Runs == {1, 2}

\* a process that has not opened its session
NoSession ==
  [pc |-> "idle", i |-> 1, category_cache |-> <<>>, location_cache |-> <<>>,
   categories |-> <<>>, locations |-> <<>>, to_add |-> <<>>, log |-> <<>>,
   error |-> "none", waits |-> NULL]

\* largest of a set of ids, 0 when there is none
MaxId(S) == IF S = {} THEN 0 ELSE CHOOSE m \in S : \A x \in S : x <= m

\* nextval of the serial category_id / location_id: an id no row has
NextCategoryId ==
  1 + MaxId({categories[j].category_id : j \in DOMAIN categories}
            \cup UNION {{session[q].categories[j].category_id :
                           j \in DOMAIN session[q].categories} : q \in Runs})

NextLocationId ==
  1 + MaxId({locations[j].location_id : j \in DOMAIN locations}
            \cup UNION {{session[q].locations[j].location_id :
                           j \in DOMAIN session[q].locations} : q \in Runs})

\* lines 75-77: category_cache[c.category_label] = c.category_id for every
\* row read
category_cache_of(cats) ==
  [l \in {cats[j].category_label : j \in DOMAIN cats} |->
     cats[CHOOSE j \in DOMAIN cats :
            /\ cats[j].category_label = l
            /\ \A k \in DOMAIN cats : cats[k].category_label = l => k <= j].category_id]

\* lines 79-81: location_cache[l.location_name] = l.location_id
location_cache_of(locs) ==
  [n \in {locs[j].location_name : j \in DOMAIN locs} |->
     locs[CHOOSE j \in DOMAIN locs :
            /\ locs[j].location_name = n
            /\ \A k \in DOMAIN locs : locs[k].location_name = n => k <= j].location_id]

\* a variant of the cache assignment made before the flush, when the id of
\* the new object is still None
PutUnflushed(cache, key, id) ==
  [k \in DOMAIN cache \cup {key} |-> IF k = key THEN 0 ELSE cache[k]]

\* category_cache[cat_label] = category.category_id, line 109, and
\* location_cache[loc_name] = location.location_id, line 131
Put(cache, key, id) ==
  [k \in DOMAIN cache \cup {key} |-> IF k = key THEN id ELSE cache[k]]

\* the other sessions that hold an uncommitted category row with the label:
\* an INSERT of the label waits for them on the unique index
Holders(r, label) ==
  {q \in Runs \ {r} : \E j \in DOMAIN session[q].categories :
                        session[q].categories[j].category_label = label}

\* the ids of the books of the table and of every session
BookIdsInUse ==
  DOMAIN books \cup UNION {{session[q].to_add[j].book_id : j \in DOMAIN session[q].to_add}
                            : q \in Runs}

\* lines 65-83: the session is opened and the caches are filled from the
\* tables
race_open(r) ==
  /\ session[r].pc = "idle"
  /\ session' = [session EXCEPT ![r] =
                   [NoSession EXCEPT !.pc = "rows",
                                     !.category_cache = category_cache_of(categories),
                                     !.location_cache = location_cache_of(locations)]]
  /\ UNCHANGED <<books, transactions, teachers, next_teacher_id, req, effects, raced,
                 streak, locations, categories, csv, job>>

\* the session after one pass of the loop, lines 85-157, for a row whose
\* category it has cached, finds committed or may insert
RowDone(r) ==
  LET me == session[r]
      row == csv.rows[me.i]
      cat_name == Cell(csv, row, "Category")
      cat_label == strip(Cell(csv, row, "category_label"))
      found == {j \in DOMAIN categories : categories[j].category_label = cat_label}
      category == IF found # {} THEN categories[CHOOSE j \in found : TRUE]
                  ELSE [category_id |-> NextCategoryId, category_name |-> strip(cat_name),
                        category_label |-> cat_label]
      cats == IF cat_label \in DOMAIN me.category_cache \/ found # {} THEN me.categories
              ELSE Append(me.categories, category)
      ccache == IF cat_label \in DOMAIN me.category_cache THEN me.category_cache
                ELSE Put(me.category_cache, cat_label, category.category_id)
      raw_loc == Cell(csv, row, "Location")
      loc_name == IF raw_loc = NULL \/ strip(raw_loc) = "" THEN UNCATEGORIZED ELSE strip(raw_loc)
      seen == {j \in DOMAIN locations : locations[j].location_name = loc_name}
      location == IF seen # {} THEN locations[CHOOSE j \in seen : \A k \in seen : j <= k]
                  ELSE [location_id |-> NextLocationId, location_name |-> loc_name,
                        category_label |-> NULL]
      locs == IF loc_name \in DOMAIN me.location_cache \/ seen # {} THEN me.locations
              ELSE Append(me.locations, location)
      lcache == IF loc_name \in DOMAIN me.location_cache THEN me.location_cache
                ELSE Put(me.location_cache, loc_name, location.location_id)
      book_name == Cell(csv, row, "book_name")
      book == [book_id |-> uuid4(BookIdsInUse), status |-> "Available",
               name |-> strip(book_name),
               storage_location_id |-> {lcache[loc_name]},
               category_id |-> {ccache[cat_label]}]
  IN [me EXCEPT !.i = me.i + 1,
                !.categories = cats, !.category_cache = ccache,
                !.locations = locs, !.location_cache = lcache,
                !.to_add = IF book_name = NULL THEN me.to_add ELSE Append(me.to_add, book)]

\* one pass of the loop.  A row without Category or category_label is
\* reported and passed over.  The INSERT of a label that another session
\* has inserted and not yet committed waits for that session.
race_row(r) ==
  /\ session[r].pc = "rows"
  /\ session[r].i <= Len(csv.rows)
  /\ LET me == session[r]
         row == csv.rows[me.i]
         cat_name == Cell(csv, row, "Category")
         cat_label == Cell(csv, row, "category_label")
     IN session' = [session EXCEPT ![r] =
          IF cat_name = NULL \/ cat_label = NULL
          THEN [me EXCEPT !.i = me.i + 1,
                          !.log = Append(me.log, <<"Skipping row", me.i>>)]
          ELSE IF /\ strip(cat_label) \notin DOMAIN me.category_cache
                  /\ \A j \in DOMAIN categories :
                       categories[j].category_label # strip(cat_label)
                  /\ Holders(r, strip(cat_label)) # {}
               THEN [me EXCEPT !.pc = "blocked", !.waits = strip(cat_label)]
               ELSE RowDone(r)]
  /\ UNCHANGED <<books, transactions, teachers, next_teacher_id, req, effects, raced,
                 streak, locations, categories, csv, job>>

\* the session the INSERT waited for has ended.  When it has committed the
\* label the INSERT is refused by the unique index: db.flush() raises
\* IntegrityError, which lines 167-171 print, roll the session back for and
\* end the run on.  When it has rolled back the INSERT goes through.
race_unblock(r) ==
  /\ session[r].pc = "blocked"
  /\ Holders(r, session[r].waits) = {}
  /\ session' = [session EXCEPT ![r] =
       IF \E j \in DOMAIN categories : categories[j].category_label = session[r].waits
       THEN [NoSession EXCEPT !.pc = "done", !.error = "IntegrityError",
                              !.log = session[r].log]
       ELSE [session[r] EXCEPT !.pc = "rows", !.waits = NULL]]
  /\ UNCHANGED <<books, transactions, teachers, next_teacher_id, req, effects, raced,
                 streak, locations, categories, csv, job>>

\* lines 159-171: the bulk insert and the commit, or, for a name that does
\* not fit String(255), the rollback
race_finish(r) ==
  /\ session[r].pc = "rows"
  /\ session[r].i > Len(csv.rows)
  /\ LET me == session[r] IN
     IF \E j \in DOMAIN me.to_add : Len(me.to_add[j].name) > NAME_MAX
     THEN /\ session' = [session EXCEPT ![r] =
                           [NoSession EXCEPT !.pc = "done", !.error = "DataError",
                                             !.log = me.log]]
          /\ UNCHANGED <<books, locations, categories>>
     ELSE /\ categories' = categories \o me.categories
          /\ locations' = locations \o me.locations
          /\ books' = bulk_save_objects(books, me.to_add)
          /\ session' = [session EXCEPT ![r] =
                           [NoSession EXCEPT !.pc = "done", !.log = me.log]]
  /\ UNCHANGED <<transactions, teachers, next_teacher_id, req, effects, raced,
                 streak, csv, job>>

\* an empty database, the sheet at /data/book.csv, and two processes that
\* have not started
InitRace ==
  /\ books = <<>>
  /\ transactions = <<>>
  /\ teachers = {}
  /\ next_teacher_id = 1
  /\ req = [r \in Reqs |-> IdleReq]
  /\ effects = [r \in Reqs |-> {}]
  /\ raced = [r \in Reqs |-> {}]
  /\ streak = <<>>
  /\ locations = <<>>
  /\ categories = <<>>
  /\ csv \in {f \in Sheets : f # NoFile /\ f.cols = ORM_COLS}
  /\ job = NoJob
  /\ session = [r \in Runs |-> NoSession]

NextRace ==
  \E r \in Runs :
    \/ race_open(r)
    \/ race_row(r)
    \/ race_unblock(r)
    \/ race_finish(r)

SpecRace == InitRace /\ [][NextRace]_vars

-----------------------------------------------------------------------------
(* Claims about concurrent runs of loader.py *)

\* C27: no run of loader.py ends on the uniqueness violation of a category
\* label that a concurrent run has inserted, and the table never holds two
\* category rows with one label.
C27_RereadOnConflict ==
  /\ \A r \in Runs : session[r].error # "IntegrityError"
  /\ \A i, j \in DOMAIN categories :
       categories[i].category_label = categories[j].category_label => i = j

\* the rows a statement of session r sees
SeenCategories(r) == Range(categories) \cup Range(session[r].categories)

SeenLocations(r) == Range(locations) \cup Range(session[r].locations)

\* every entry of the caches of session r is a row the session sees, with
\* that key and that id
CachesSound(r) ==
  /\ \A l \in DOMAIN session[r].category_cache :
       \E c \in SeenCategories(r) :
         c.category_label = l /\ c.category_id = session[r].category_cache[l]
  /\ \A n \in DOMAIN session[r].location_cache :
       \E c \in SeenLocations(r) :
         c.location_name = n /\ c.location_id = session[r].location_cache[n]

\* C28: a run of loader.py starts with caches that hold the labels and
\* names of the tables, and at every point of the run each cache entry is
\* a row the run sees, with that key and that id.
C28_CachesFollowStore ==
  [][\A r \in Runs :
       /\ session'[r].pc \in {"rows", "blocked"} => CachesSound(r)'
       /\ (session[r].pc = "idle" /\ session'[r].pc = "rows")
          => /\ DOMAIN session'[r].category_cache =
                  {categories[j].category_label : j \in DOMAIN categories}
             /\ DOMAIN session'[r].location_cache =
                  {locations[j].location_name : j \in DOMAIN locations}]_vars

\* C28 witness: a run works with a category and a location in its caches
\* that the other run has inserted and committed
C28_Witness ==
  \E r \in Runs :
    /\ session[r].pc = "rows"
    /\ session[r].i > 1
    /\ session[r].categories = <<>>
    /\ session[r].locations = <<>>
    /\ session[r].category_cache # <<>>
    /\ session[r].location_cache # <<>>
    /\ \E q \in Runs \ {r} : session[q].pc = "done" /\ session[q].error = "none"

====
